---- MODULE Spec2Model ----
(***************************************************************************)
(* Model of api/github.py: the Github client (pulls, user, repo,          *)
(* repo_list) talking to a remote HTTP service whose responses are chosen  *)
(* nondeterministically.                                                   *)
(*                                                                         *)
(* Encoding of Python values:                                              *)
(*   None            [none |-> TRUE]                                       *)
(*   a value v       [none |-> FALSE, val |-> v]   (where None is possible)*)
(*   str (state)     a tuple of one-character strings                      *)
(*   dict of headers a set of <<name, value>> pairs                        *)
(*   JSON body       [kind |-> "list" | "object" | "notjson",              *)
(*                    items |-> tuple, obj |-> function key -> value]      *)
(*   exception       [type, status, message]                               *)
(***************************************************************************)
EXTENDS Integers, Sequences, FiniteSets, TLC

VARIABLES
    token,        \* the token argument given to __init__
    self_url,     \* self.url
    self_headers, \* self.headers
    pc,           \* "idle" before the call, "done" after it, else a place in repo_list
    op,           \* the call in progress or just finished: name and arguments
    http,         \* requests.get calls of the current call, with their responses
    remote,       \* the remote's topics answer per repository (current call)
    page,         \* repo_list: page
    repos,        \* repo_list: repos
    repo_data,    \* repo_list: repo_data (the fetched page, as a JSON body)
    idx,          \* repo_list: position of the for loop in repo_data
    result,       \* the value returned by the finished call
    raised        \* the exception raised by the finished call

vars == <<token, self_url, self_headers, pc, op, http, remote, page, repos,
          repo_data, idx, result, raised>>

----------------------------------------------------------------------------
(* Bounds of the model *)

MaxItems == 2
MaxPage == 3

----------------------------------------------------------------------------
(* Python values *)

None == [none |-> TRUE]
Some(v) == [none |-> FALSE, val |-> v]

\* str(x) inside an f-string: None is formatted as the text "None"
Format(x) == IF x = None THEN "None" ELSE x.val

NoExc == [type |-> "", status |-> 0, message |-> ""]
Exc(t, s, m) == [type |-> t, status |-> s, message |-> m]

Range(s) == {s[i] : i \in 1..Len(s)}

UpperCase == <<"A","B","C","D","E","F","G","H","I","J","K","L","M",
               "N","O","P","Q","R","S","T","U","V","W","X","Y","Z">>
LowerCase == <<"a","b","c","d","e","f","g","h","i","j","k","l","m",
               "n","o","p","q","r","s","t","u","v","w","x","y","z">>

\* str.lower() on one character
LowerChar(c) ==
    IF \E i \in 1..Len(UpperCase) : UpperCase[i] = c
    THEN LowerCase[CHOOSE i \in 1..Len(UpperCase) : UpperCase[i] = c]
    ELSE c

\* a lower() that leaves the text as it is
LowerIdentity(s) == s
\* state.lower()
Lower(s) == [i \in 1..Len(s) |-> LowerChar(s[i])]

----------------------------------------------------------------------------
(* JSON bodies and HTTP responses *)

JList(items) == [kind |-> "list", items |-> items, obj |-> <<>>]
JObject(f) == [kind |-> "object", items |-> <<>>, obj |-> f]
NotJson == [kind |-> "notjson", items |-> <<>>, obj |-> <<>>]

Response(status, body) == [status_code |-> status, body |-> body]

\* statuses that come with a body; a 304 comes with none
Statuses == {200, 201, 404, 503}
NotModified == Response(304, NotJson)

\* the error body the remote sends with a failure
ErrorBody == JObject([message |-> "Not Found"])
EmptyObject == JObject(<<>>)

\* response.ok: requests reports False exactly for 400 <= status_code < 600
ResponseOk(r) == ~(400 <= r.status_code /\ r.status_code < 600)

\* len(data) for a decoded JSON body
PyLen(body) == IF body.kind = "list" THEN Len(body.items)
               ELSE Cardinality(DOMAIN body.obj)

----------------------------------------------------------------------------
(* __init__ *)

BaseUrl == "https://api.github.com/"

\* self.headers = {"Authorization": f"token {token}"}
InitHeaders(t) == Some({<<"Authorization", <<"token", Format(t)>>>>})

Tokens == {None, Some("ghp_s3cr3t")}

NoOp == [name |-> "", arg |-> "", state |-> <<>>, topics |-> None]

Init ==
    /\ token \in Tokens
    /\ self_url = BaseUrl
    /\ self_headers = InitHeaders(token)
    /\ pc = "idle"
    /\ op = NoOp
    /\ http = <<>>
    /\ remote = <<>>
    /\ page = 0
    /\ repos = <<>>
    /\ repo_data = JList(<<>>)
    /\ idx = 0
    /\ result = None
    /\ raised = NoExc

----------------------------------------------------------------------------
(* Requests *)

\* the URL as its formatted parts
Url(endpoint, target, state, pg) ==
    [base |-> self_url, endpoint |-> endpoint, target |-> target,
     state |-> state, page |-> pg]

\* requests.get(url) when self.headers is None, else
\* requests.get(url, headers=self.headers)
Get(url, resp) ==
    [url |-> url,
     headers |-> IF self_headers = None THEN {} ELSE self_headers.val,
     response |-> resp]

\* no call has been made on the client yet
Free == pc = "idle"

\* the error branch shared by pulls, user and repo:
\* raise RuntimeError(f"Error {response.status_code}: {response.json()['message']}")
RaiseRemote(resp) ==
    IF resp.body.kind = "notjson" THEN Exc("JSONDecodeError", 0, "")
    ELSE IF resp.body.kind = "list" THEN Exc("TypeError", 0, "list indices")
    ELSE IF "message" \notin DOMAIN resp.body.obj THEN Exc("KeyError", 0, "message")
    ELSE Exc("RuntimeError", resp.status_code, resp.body.obj["message"])

\* what the decoding and subscripting of a success body raises, for a body
\* that is expected to be an object with the keys `keys` (in access order)
FirstMissing(obj, keys) ==
    LET missing == {i \in 1..Len(keys) : keys[i] \notin DOMAIN obj}
    IN  IF missing = {} THEN ""
        ELSE keys[CHOOSE i \in missing : \A j \in missing : i <= j]

ObjectError(body, keys) ==
    IF body.kind = "notjson" THEN Exc("JSONDecodeError", 0, "")
    ELSE IF body.kind = "list" THEN Exc("TypeError", 0, "list indices")
    ELSE IF FirstMissing(body.obj, keys) # ""
         THEN Exc("KeyError", 0, FirstMissing(body.obj, keys))
    ELSE NoExc

----------------------------------------------------------------------------
(* pulls *)

VALID_STATES == {<<"a","l","l">>, <<"o","p","e","n">>, <<"c","l","o","s","e","d">>}

\* a validation that lets every state through
AnyStateValid(st) == TRUE
\* the test of `if state not in VALID_STATES`, negated
IsValidState(st) == st \in VALID_STATES

\* the labels in reverse order
LabelNamesReversed(labels) ==
    [i \in 1..Len(labels) |-> labels[Len(labels) + 1 - i]["name"]]
\* [label["name"] for label in data[index]["labels"]]
LabelNames(labels) == [i \in 1..Len(labels) |-> labels[i]["name"]]

\* datetime.fromisoformat(created_at[:-1] + "+00:00"); the text is held as
\* its pieces <<date, "T", time, last character>>
FromIsoFormat(s) == [date |-> s[1], time |-> s[3], utcoffset |-> s[4]]
ParseCreatedAt(created_at) ==
    FromIsoFormat(Append(SubSeq(created_at, 1, Len(created_at) - 1), "+00:00"))

\* the record built for data[index]
PullRecord(item) ==
    [username |-> item["user"]["login"],
     labels |-> LabelNames(item["labels"]),
     created_at |-> ParseCreatedAt(item["created_at"])]

\* the success branch of pulls: <<returned value, exception>>
PullsSuccess(body) ==
    IF body.kind = "notjson" THEN <<None, Exc("JSONDecodeError", 0, "")>>
    ELSE IF body.kind = "list"
         THEN <<Some([i \in 1..Len(body.items) |-> PullRecord(body.items[i])]), NoExc>>
    ELSE IF PyLen(body) = 0 THEN <<Some(body), NoExc>>
    ELSE <<None, Exc("KeyError", 0, "0")>>

PullsOutcome(resp) ==
    IF ResponseOk(resp) THEN PullsSuccess(resp.body)
    ELSE <<None, RaiseRemote(resp)>>

Variants(v) ==
    {[i \in 1..Len(v) |-> IF i \in U
                          THEN UpperCase[CHOOSE k \in 1..Len(LowerCase) : LowerCase[k] = v[i]]
                          ELSE v[i]] : U \in SUBSET (1..Len(v))}

InvalidStates == {<<>>, <<"m","e","r","g","e","d">>, <<"M","E","R","G","E","D">>,
                  <<"a","l">>, <<"a","l","l"," ">>, <<"O","p","e","n","e","d">>,
                  <<"c","l","o","s","e">>, <<"0","p","e","n">>}

StateInputs == UNION {Variants(v) : v \in VALID_STATES} \cup InvalidStates

RepoNames == {"octo/alpha", "octo/beta"}

CreatedAt == <<"2023-01-01", "T", "12:00:00", "Z">>

PullItem(login, names) ==
    [user |-> [login |-> login],
     labels |-> [i \in 1..Len(names) |-> [name |-> names[i]]],
     created_at |-> CreatedAt]

PullItems == {PullItem("alice", <<"bug", "hacktoberfest">>),
              PullItem("bob", <<"hacktoberfest", "bug">>),
              PullItem("bob", <<"hacktoberfest">>),
              PullItem("carol", <<>>)}

SeqsUpTo(S, n) == UNION {[1..k -> S] : k \in 0..n}

PullsBodies == {JList(items) : items \in SeqsUpTo(PullItems, MaxItems)}
               \cup {ErrorBody, EmptyObject, NotJson}

PullsResponses == {Response(s, b) : s \in Statuses, b \in PullsBodies} \cup {NotModified}

Pulls(repo, state) ==
    /\ Free
    /\ pc' = "done"
    /\ op' = [name |-> "pulls", arg |-> repo, state |-> state, topics |-> None]
    /\ LET st == Lower(state) IN
        IF ~IsValidState(st)
        THEN /\ http' = <<>>
             /\ result' = None
             /\ raised' = Exc("ValueError", 0, "state")
        ELSE \E resp \in PullsResponses :
             /\ http' = <<Get(Url("pulls", repo, st, 0), resp)>>
             /\ result' = PullsOutcome(resp)[1]
             /\ raised' = PullsOutcome(resp)[2]
    /\ UNCHANGED <<token, self_url, self_headers, remote, page, repos, repo_data, idx>>

----------------------------------------------------------------------------
(* user and repo *)

UserKeys == <<"login", "name", "avatar_url", "html_url">>

UserInfo(data) ==
    [username |-> data["login"], name |-> data["name"],
     avatar_url |-> data["avatar_url"], url |-> data["html_url"]]

UserOutcome(resp) ==
    IF ~ResponseOk(resp) THEN <<None, RaiseRemote(resp)>>
    ELSE IF ObjectError(resp.body, UserKeys) # NoExc
         THEN <<None, ObjectError(resp.body, UserKeys)>>
    ELSE <<Some(UserInfo(resp.body.obj)), NoExc>>

UserObject(name) ==
    [login |-> Some("octocat"), name |-> name,
     avatar_url |-> Some("https://avatars/1"), html_url |-> Some("https://github.com/octocat")]

UserBodies == {JObject(UserObject(Some("The Octocat"))), JObject(UserObject(None)),
               JObject([login |-> Some("octocat")]),
               ErrorBody, EmptyObject, NotJson, JList(<<>>)}

UserResponses == {Response(s, b) : s \in Statuses, b \in UserBodies} \cup {NotModified}

Usernames == {"octocat", "ghost"}

User(username) ==
    /\ Free
    /\ pc' = "done"
    /\ op' = [name |-> "user", arg |-> username, state |-> <<>>, topics |-> None]
    /\ \E resp \in UserResponses :
        /\ http' = <<Get(Url("users", username, <<>>, 0), resp)>>
        /\ result' = UserOutcome(resp)[1]
        /\ raised' = UserOutcome(resp)[2]
    /\ UNCHANGED <<token, self_url, self_headers, remote, page, repos, repo_data, idx>>

RepoKeys == <<"name", "full_name", "description", "html_url", "clone_url">>

RepoInfo(data) ==
    [name |-> data["name"], full_name |-> data["full_name"],
     description |-> data["description"], url |-> data["html_url"],
     clone_url |-> data["clone_url"]]

RepoOutcome(resp) ==
    IF ~ResponseOk(resp) THEN <<None, RaiseRemote(resp)>>
    ELSE IF ObjectError(resp.body, RepoKeys) # NoExc
         THEN <<None, ObjectError(resp.body, RepoKeys)>>
    ELSE <<Some(RepoInfo(resp.body.obj)), NoExc>>

RepoObject(description) ==
    [name |-> Some("alpha"), full_name |-> Some("octo/alpha"),
     description |-> description, html_url |-> Some("https://github.com/octo/alpha"),
     clone_url |-> Some("https://github.com/octo/alpha.git")]

RepoBodies == {JObject(RepoObject(Some("first"))), JObject(RepoObject(None)),
               JObject([name |-> Some("alpha"), full_name |-> Some("octo/alpha")]),
               ErrorBody, EmptyObject, NotJson, JList(<<>>)}

RepoResponses == {Response(s, b) : s \in Statuses, b \in RepoBodies} \cup {NotModified}

Repo(repo) ==
    /\ Free
    /\ pc' = "done"
    /\ op' = [name |-> "repo", arg |-> repo, state |-> <<>>, topics |-> None]
    /\ \E resp \in RepoResponses :
        /\ http' = <<Get(Url("repos", repo, <<>>, 0), resp)>>
        /\ result' = RepoOutcome(resp)[1]
        /\ raised' = RepoOutcome(resp)[2]
    /\ UNCHANGED <<token, self_url, self_headers, remote, page, repos, repo_data, idx>>

----------------------------------------------------------------------------
(* repo_list *)

Orgs == {"octo"}

\* the pages the remote may answer with: every ordering of every subset of
\* its repositories
PageLists == {l \in SeqsUpTo(RepoNames, Cardinality(RepoNames)) :
                \A i, j \in 1..Len(l) : l[i] = l[j] => i = j}

RepoItem(full_name) == [full_name |-> full_name]

PageBody(l) == JList([i \in 1..Len(l) |-> RepoItem(l[i])])

PageResponses == {Response(200, PageBody(l)) : l \in PageLists}
                 \cup {Response(404, ErrorBody), Response(503, NotJson)}

TopicsBody(names) == JObject([names |-> names])

TopicsAnswers == {Response(200, TopicsBody(<<"cli", "tool">>)),
                  Response(200, TopicsBody(<<"tool">>)),
                  Response(404, ErrorBody),
                  Response(503, NotJson)}

TopicsArgs == {None, Some(<<>>), Some(<<"cli">>), Some(<<"cli", "tool">>)}

\* a test that never sees the end of the listing
NeverEmptyPage(data) == FALSE
\* repo_data == []
IsEmptyPage(data) == data.kind = "list" /\ data.items = <<>>

\* a page counter that skips a page
SkipPage(p) == p + 2
\* page += 1
NextPage(p) == p + 1

\* the elements of set(topics), for a topics that set() accepts
PySet(topics) == IF topics = None THEN {} ELSE Range(topics.val)

\* the filter with the inclusion the wrong way round
TopicsMatchReversed(topics, topics_data) == Range(topics_data) \subseteq PySet(topics)
\* set(topics).issubset(set(topics_data))
TopicsMatch(topics, topics_data) == PySet(topics) \subseteq Range(topics_data)

\* set(None) passing as the empty set
SetOfNoneEmpty(topics) == NoExc
\* set(topics): None is not iterable
SetError(topics) ==
    IF topics = None THEN Exc("TypeError", 0, "NoneType is not iterable") ELSE NoExc

\* requests.get(topics_url).json()["names"]: what it raises
NamesError(resp) == ObjectError(resp.body, <<"names">>)

RepoList(org, topics, answers) ==
    /\ Free
    /\ pc' = "rl_page"
    /\ op' = [name |-> "repo_list", arg |-> org, state |-> <<>>, topics |-> topics]
    /\ remote' = answers
    /\ repos' = <<>>
    /\ page' = 1
    /\ UNCHANGED <<token, self_url, self_headers, http, repo_data, idx, result, raised>>

\* the head of the while loop: fetch the page, decode it, test for the end
RepoListPage ==
    /\ pc = "rl_page"
    /\ page <= MaxPage
    /\ \E resp \in PageResponses :
        /\ http' = Append(http, Get(Url("user_repos", op.arg, <<>>, page), resp))
        /\ IF resp.body.kind = "notjson"
           THEN /\ raised' = Exc("JSONDecodeError", 0, "")
                /\ pc' = "done"
                /\ UNCHANGED <<repo_data, idx>>
           ELSE /\ repo_data' = resp.body
                /\ raised' = raised
                /\ IF IsEmptyPage(resp.body)
                   THEN pc' = "rl_return" /\ idx' = idx
                   ELSE pc' = "rl_for" /\ idx' = 1
    /\ UNCHANGED <<token, self_url, self_headers, op, remote, page, repos, result>>

\* one iteration of `for repo in repo_data`
RepoListRepo ==
    /\ pc = "rl_for"
    /\ idx <= PyLen(repo_data)
    /\ IF repo_data.kind = "object"
       THEN \* repo is a key of the dict, a str: repo['full_name'] fails
            /\ raised' = Exc("TypeError", 0, "string indices")
            /\ pc' = "done"
            /\ UNCHANGED <<http, repos, idx>>
       ELSE LET full_name == repo_data.items[idx]["full_name"]
                resp == remote[full_name]
                err == IF NamesError(resp) # NoExc THEN NamesError(resp)
                       ELSE SetError(op.topics)
            IN  /\ http' = Append(http, Get(Url("topics", full_name, <<>>, 0), resp))
                /\ IF err # NoExc
                   THEN /\ raised' = err
                        /\ pc' = "done"
                        /\ UNCHANGED <<repos, idx>>
                   ELSE /\ repos' = IF TopicsMatch(op.topics, resp.body.obj["names"])
                                    THEN Append(repos, full_name)
                                    ELSE repos
                        /\ idx' = idx + 1
                        /\ UNCHANGED <<raised, pc>>
    /\ UNCHANGED <<token, self_url, self_headers, op, remote, page, repo_data, result>>

\* the for loop is exhausted: page += 1 and back to the head of the loop
RepoListNextPage ==
    /\ pc = "rl_for"
    /\ idx > PyLen(repo_data)
    /\ page' = NextPage(page)
    /\ pc' = "rl_page"
    /\ UNCHANGED <<token, self_url, self_headers, op, http, remote, repos,
                   repo_data, idx, result, raised>>

\* break, then return repos
RepoListReturn ==
    /\ pc = "rl_return"
    /\ result' = Some(repos)
    /\ pc' = "done"
    /\ UNCHANGED <<token, self_url, self_headers, op, http, remote, page,
                   repos, repo_data, idx, raised>>

----------------------------------------------------------------------------
(* Specifications *)

CallPulls == \E repo \in RepoNames, state \in StateInputs : Pulls(repo, state)
CallUser == \E username \in Usernames : User(username)
CallRepo == \E repo \in RepoNames : Repo(repo)
CallRepoList == \E org \in Orgs, topics \in TopicsArgs,
                   answers \in [RepoNames -> TopicsAnswers] : RepoList(org, topics, answers)

Next ==
    \/ CallPulls
    \/ CallUser
    \/ CallRepo
    \/ CallRepoList
    \/ RepoListPage
    \/ RepoListRepo
    \/ RepoListNextPage
    \/ RepoListReturn

Spec == Init /\ [][Next]_vars

\* the call is synchronous: once inside repo_list, its next step is taken
FairSpec ==
    /\ Spec
    /\ WF_vars(RepoListPage)
    /\ WF_vars(RepoListRepo)
    /\ WF_vars(RepoListNextPage)
    /\ WF_vars(RepoListReturn)

----------------------------------------------------------------------------
(* Vocabulary of the properties *)

Finished(name) == pc = "done" /\ op.name = name
Success(status) == 200 <= status /\ status <= 299

\* s spells v up to the case of its letters
IsSpelling(s, v) ==
    /\ Len(s) = Len(v)
    /\ \A i \in 1..Len(v) :
          \/ s[i] = v[i]
          \/ \E k \in 1..Len(LowerCase) : LowerCase[k] = v[i] /\ UpperCase[k] = s[i]

All == <<"a","l","l">>
Open == <<"o","p","e","n">>
Closed == <<"c","l","o","s","e","d">>
Recognized(s) == \E v \in {All, Open, Closed} : IsSpelling(s, v)

IsPageRequest(r) == r.url.endpoint = "user_repos"
IsTopicsRequest(r) == r.url.endpoint = "topics"
PageRequests == SelectSeq(http, IsPageRequest)
TopicsRequests == SelectSeq(http, IsTopicsRequest)

IsEmptyList(body) == body = JList(<<>>)
IsRepoPage(body) == body.kind = "list" /\ body.items # <<>>

RECURSIVE FullNames(_)
\* the full_name of every repository of the given page requests, in order
FullNames(reqs) ==
    IF reqs = <<>> THEN <<>>
    ELSE LET b == Head(reqs).response.body
         IN  (IF b.kind = "list" THEN [i \in 1..Len(b.items) |-> b.items[i]["full_name"]]
              ELSE <<>>) \o FullNames(Tail(reqs))

HasNames(r) == r.response.body.kind = "object" /\ "names" \in DOMAIN r.response.body.obj

Matches(r) ==
    /\ HasNames(r)
    /\ \A t \in Range(op.topics.val) : t \in Range(r.response.body.obj["names"])

Targets(reqs) == [i \in 1..Len(reqs) |-> reqs[i].url.target]

----------------------------------------------------------------------------
(* Properties *)

\* C1: pulls with a state that is no spelling of all, open or closed (in any
\* case) fails with ValueError, and no request has been issued when it fails.
C1_InvalidStateRejected ==
    (Finished("pulls") /\ ~Recognized(op.state))
        => raised.type = "ValueError" /\ http = <<>> /\ result = None

C1_Witness ==
    /\ Finished("pulls")
    /\ op.state = <<"M","E","R","G","E","D">>
    /\ raised.type = "ValueError"

\* C2 (as stated): a response of user, repo or pulls whose status is not 2xx
\* ends the call in a RuntimeError that carries that status, whatever the body.
C2_NonSuccessRaisesRuntimeError ==
    (pc = "done" /\ op.name \in {"pulls", "user", "repo"} /\ http # <<>>
        /\ ~Success(http[1].response.status_code))
        => raised.type = "RuntimeError" /\ raised.status = http[1].response.status_code

\* C3: repo_list requests pages 1, 2, ..., k in order and without gap or
\* repeat; every page before the last requested one was not the empty list;
\* it returns only after the empty page, which is the last request of the
\* call, and the repositories it looked up are those of pages 1..k-1 in order.
C3_Pagination ==
    op.name = "repo_list" =>
        /\ \A i \in 1..Len(PageRequests) : PageRequests[i].url.page = i
        /\ \A i \in 1..(Len(PageRequests) - 1) :
              ~IsEmptyList(PageRequests[i].response.body)
        /\ (pc = "done" /\ result # None) =>
              /\ PageRequests # <<>>
              /\ IsEmptyList(PageRequests[Len(PageRequests)].response.body)
              /\ http[Len(http)] = PageRequests[Len(PageRequests)]
              /\ Targets(TopicsRequests) = FullNames(PageRequests)

C3_Witness ==
    /\ Finished("repo_list")
    /\ result # None
    /\ Len(PageRequests) = 3
    /\ IsRepoPage(PageRequests[1].response.body)
    /\ IsRepoPage(PageRequests[2].response.body)
    /\ IsEmptyList(PageRequests[3].response.body)

\* C4: the list repo_list returns is the looked-up repositories whose topic
\* names include every element of topics, in the order they were fetched.
C4_TopicFilter ==
    (Finished("repo_list") /\ result # None /\ op.topics # None)
        => result.val = Targets(SelectSeq(TopicsRequests, Matches))

C4_Witness ==
    /\ Finished("repo_list")
    /\ op.topics = Some(<<"cli">>)
    /\ Targets(TopicsRequests) = <<"octo/beta", "octo/alpha", "octo/alpha">>
    /\ remote["octo/alpha"] = Response(200, TopicsBody(<<"cli", "tool">>))
    /\ remote["octo/beta"] = Response(200, TopicsBody(<<"tool">>))
    /\ result = Some(<<"octo/alpha", "octo/alpha">>)

\* C5 (as stated): with a token every request carries Authorization
\* "token <value>"; without a token no request carries an Authorization header.
C5_AuthorizationHeader ==
    \A i \in 1..Len(http) :
        /\ token # None => http[i].headers = {<<"Authorization", <<"token", token.val>>>>}
        /\ token = None => \A h \in http[i].headers : h[1] # "Authorization"

\* C6 (as stated): a non-2xx response to a page or topics request of repo_list
\* ends the call in a RuntimeError carrying the status and the body's message.
C6_RepoListRemoteError ==
    \A i \in 1..Len(http) :
        (Finished("repo_list") /\ ~Success(http[i].response.status_code))
            => /\ raised.type = "RuntimeError"
               /\ raised.status = http[i].response.status_code

\* C7: for a 2xx pulls response that is a list of N items, pulls returns N
\* records in the same order, the i-th with the label names of item i in
\* their order and the login of its user.
C7_PullsProjection ==
    (Finished("pulls") /\ http # <<>> /\ Success(http[1].response.status_code)
        /\ http[1].response.body.kind = "list")
        => LET items == http[1].response.body.items
           IN  /\ raised = NoExc
               /\ result # None
               /\ Len(result.val) = Len(items)
               /\ \A i \in 1..Len(items) :
                     /\ result.val[i].username = items[i].user.login
                     /\ Len(result.val[i].labels) = Len(items[i].labels)
                     /\ \A j \in 1..Len(items[i].labels) :
                           result.val[i].labels[j] = items[i].labels[j].name

C7_Witness ==
    /\ Finished("pulls")
    /\ result # None
    /\ http[1].response.body.kind = "list"
    /\ Len(http[1].response.body.items) = 2
    /\ result.val[1].labels = <<"bug", "hacktoberfest">>
    /\ result.val[2].labels = <<"hacktoberfest", "bug">>
    /\ result.val[1].username = "alice"
    /\ result.val[2].username = "bob"

\* C8: pulls with any spelling of a valid state, in any mix of case, does
\* not fail on the state, issues the one request of the lower-case form and
\* ends as the response alone decides.
C8_CaseInsensitiveState ==
    \A v \in {All, Open, Closed} :
        (Finished("pulls") /\ IsSpelling(op.state, v))
            => /\ raised.type # "ValueError"
               /\ Len(http) = 1
               /\ http[1].url = [base |-> BaseUrl, endpoint |-> "pulls",
                                 target |-> op.arg, state |-> v, page |-> 0]
               /\ <<result, raised>> = PullsOutcome(http[1].response)

C8_Witness ==
    /\ Finished("pulls")
    /\ op.state = <<"C","l","o","S","E","d">>
    /\ http[1].url.state = Closed
    /\ http[1].response.body.kind = "list"
    /\ result # None
    /\ Len(result.val) = 1

EmptyPageAnswered ==
    /\ op.name = "repo_list"
    /\ \E i \in 1..Len(http) : IsPageRequest(http[i]) /\ IsEmptyList(http[i].response.body)

WellFormed(r) ==
    /\ r.response.status_code = 200
    /\ IF IsPageRequest(r) THEN r.response.body.kind = "list" ELSE HasNames(r)

\* inside the loop, on well-formed answers only, before any empty page
Looping ==
    /\ op.name = "repo_list"
    /\ pc \in {"rl_page", "rl_for"}
    /\ op.topics # None
    /\ \A i \in 1..Len(http) : WellFormed(http[i])

====
